---- MODULE Spec2Model ----
(***************************************************************************)
(* Model of the rumqttd broker core (src/src/broker.rs): the session       *)
(* table, the subscription index, the QoS queues and the packet handlers.  *)
(*                                                                         *)
(* client.rs is not part of the sources.  A Client is modelled as the spec *)
(* describes it (sections 3 and 4.1): a handle with an id, an outbound     *)
(* FIFO sink and a state of four queues that every clone of the handle     *)
(* shares.  Its queue methods (store_publish, remove_record, ...) are the  *)
(* methods of the same names of broker.rs lines 123-183, applied to the    *)
(* client's own state; spec section 9.2 describes remove_record with the   *)
(* very scan of lines 148-152.                                             *)
(***************************************************************************)
EXTENDS Integers, Sequences, FiniteSets, TLC

(***************************************************************************)
(* Bounds of the model.                                                    *)
(***************************************************************************)
\* Spec: the number of operations of a behaviour
MaxOps == 4
\* SpecIndex: the number of entries of the subscription index, all lists
\* together
MaxSubs == 3
\* SpecState: the number of elements of the broker's four queues together
MaxQueue == 3

(***************************************************************************)
(* Values.                                                                 *)
(***************************************************************************)
\* QoS::AtMostOnce, QoS::AtLeastOnce, QoS::ExactlyOnce
AtMostOnce == 0
AtLeastOnce == 1
ExactlyOnce == 2
QoS == {AtMostOnce, AtLeastOnce, ExactlyOnce}

\* the Client values the connection layer creates (mock_client in the tests):
\* c1 and c3 are two connections that use the same client id
Clients == {"c1", "c2", "c3", "c4"}
ClientIds == {"A", "B", "C"}
\* Client.id
id_of(c) == IF c = "c2" THEN "B" ELSE IF c = "c4" THEN "C" ELSE "A"
\* the connections and ids of the protocol runs; the runs of the index
\* alone use all of them
ProtocolClients == {"c1", "c2", "c3"}
ProtocolIds == {"A", "B"}

Topics == {"t", "u"}
Payloads == {"x"}
\* the packet ids the clients put in their packets
Pids == {1, 2}

\* Option<T>: None is the empty sequence, Some(v) the one-element sequence
None == << >>
Some(v) == << v >>

\* SubscribeTopic { topic_path, qos }: the key of the subscription index
SubscribeTopic(t, q) == [topic_path |-> t, qos |-> q]
Keys == {SubscribeTopic(t, q) : t \in Topics, q \in QoS}

\* Publish { topic_name, qos, payload, pid }; dup and retain are always false
\* on the packets the broker builds and are not read by it on inbound ones
Publish(t, q, pl, p) == [topic_name |-> t, qos |-> q, payload |-> pl, pid |-> p]

\* BrokerState::new()
NewState == [incoming_pub |-> << >>, incoming_rec |-> << >>,
             incoming_rel |-> << >>, incoming_comp |-> << >>]

(***************************************************************************)
(* Vec / VecDeque helpers.                                                 *)
(***************************************************************************)
\* iter().position(pred), given the set of the 1-based indices at which pred
\* holds: the first of them, 0 for Rust's None
position(match) ==
    IF match = {} THEN 0 ELSE CHOOSE i \in match : \A j \in match : i <= j

\* Vec::remove(index) / VecDeque::remove(index) for an index within bounds
RemoveAt(s, i) == SubSeq(s, 1, i - 1) \o SubSeq(s, i + 1, Len(s))

\* Vec::insert(index, x): x takes position index, the rest shifts right
InsertAt(s, i, x) == SubSeq(s, 1, i - 1) \o << x >> \o SubSeq(s, i, Len(s))

VARIABLES
    clients,        \* Broker.clients: client id -> Client, None when absent
    subscriptions,  \* Broker.subscriptions: SubscribeTopic -> Vec<Client>
    state,          \* Broker.state: the broker's own BrokerState
    cstate,         \* Client.state of every Client value
    next_pid,       \* the packet id allocator of every Client value
    created,        \* the Client values handed to add_client so far
    unacked,        \* history: per Client value, the packet ids of the QoS-1
                    \* PUBLISHes forwarded to it that it has not PUBACKed
    unreleased,     \* history: per Client value, the QoS-2 PUBLISHes received
                    \* from it that it has not released by PUBREL, in order
    nops,           \* the number of operations handled so far
    last            \* the operation handled last, with the packets it sent

vars == << clients, subscriptions, state, cstate, next_pid, created,
           unacked, unreleased, nops, last >>

(***************************************************************************)
(* Packets (mqtt3::Packet) and the record of the operation handled last.   *)
(***************************************************************************)
Suback(pkid, return_codes) ==
    [type |-> "Suback", pid |-> pkid, return_codes |-> return_codes, publish |-> None]
Puback(pkid) == [type |-> "Puback", pid |-> pkid, return_codes |-> << >>, publish |-> None]
Pubrec(pkid) == [type |-> "Pubrec", pid |-> pkid, return_codes |-> << >>, publish |-> None]
Pubrel(pkid) == [type |-> "Pubrel", pid |-> pkid, return_codes |-> << >>, publish |-> None]
Pubcomp(pkid) == [type |-> "Pubcomp", pid |-> pkid, return_codes |-> << >>, publish |-> None]
PublishPacket(publish) ==
    [type |-> "Publish", pid |-> 0, return_codes |-> << >>, publish |-> Some(publish)]
Pingresp == [type |-> "Pingresp", pid |-> 0, return_codes |-> << >>, publish |-> None]

\* SubscribeReturnCodes::Success(qos); a failure code would be "Failure"
Success(q) == [code |-> "Success", qos |-> q]

\* one packet enqueued on the sink of Client value c
Sent(c, packet) == [to |-> c, packet |-> packet]

\* the operation handled last: its name and arguments (the Client value and
\* client id it is about, key, packet id, topic list, inbound publish), what
\* its lookup found or returned (ret), and the packets it enqueued on the
\* sinks in the order of the send calls.  A sink is a FIFO, so the packets
\* for one Client value reach it in this order.
Op(name, c, i, k, pkid, topics, publish, ret, sent) ==
    [op |-> name, client |-> c, id |-> i, key |-> k, pid |-> pkid,
     topics |-> topics, publish |-> publish, ret |-> ret, sent |-> sent]

NoKey == SubscribeTopic("", AtMostOnce)

(***************************************************************************)
(* Session table and subscription index.  The index is a total function:   *)
(* a key without an entry and a key with an empty Vec are both << >>, and  *)
(* get_subscribed_clients cannot tell them apart.                          *)
(***************************************************************************)
\* mutant: a client id already in the table keeps its session
add_client_keeps_first(table, client) ==
    IF table[id_of(client)] # None THEN table
    ELSE [table EXCEPT ![id_of(client)] = Some(client)]

\* Broker::add_client: HashMap::insert under client.id, overwriting
add_client(table, client) == [table EXCEPT ![id_of(client)] = Some(client)]

\* Broker::add_subscription_client: a client whose id is already in the list
\* is inserted at the position of the existing entry, which stays in the list
\* mutant: the client goes to the front of the list
add_subscription_client_front(subs, topic, client) ==
    [subs EXCEPT ![topic] = << client >> \o @]

add_subscription_client(subs, topic, client) ==
    LET list == subs[topic]
        index == position({i \in 1 .. Len(list) : id_of(list[i]) = id_of(client)})
    IN  IF index # 0
        THEN [subs EXCEPT ![topic] = InsertAt(list, index, client)]
        ELSE [subs EXCEPT ![topic] = Append(list, client)]

\* Broker::remove_subscription_client
remove_subscription_client(subs, topic, id) ==
    LET list == subs[topic]
        index == position({i \in 1 .. Len(list) : id_of(list[i]) = id})
    IN  IF index # 0 THEN [subs EXCEPT ![topic] = RemoveAt(list, index)] ELSE subs

\* Broker::get_subscribed_clients: a copy of the list, empty for a key
\* without entry
get_subscribed_clients(subs, topic) == subs[topic]

\* the two halves of Broker::remove_client: the table entry goes, and in
\* every list of the index the first entry with that id
remove_client_table(table, id) == [table EXCEPT ![id] = None]

remove_client_subscriptions(subs, id) ==
    [k \in DOMAIN subs |->
        LET list == subs[k]
            index == position({i \in 1 .. Len(list) : id_of(list[i]) = id})
        IN  IF index # 0 THEN RemoveAt(list, index) ELSE list]

(***************************************************************************)
(* The queue methods, on a BrokerState value st.  Each removal returns the *)
(* new state and what the method returns.                                  *)
(***************************************************************************)
store_publish(st, publish) ==
    [st EXCEPT !.incoming_pub = Append(@, publish)]

\* mutant: the position is looked up in the other publish queue
remove_publish_scans_rec(st, pkid) ==
    LET q == st.incoming_pub
        i == position({j \in 1 .. Len(st.incoming_rec) : st.incoming_rec[j].pid = Some(pkid)})
    IN  IF i # 0 /\ i <= Len(q)
        THEN [state |-> [st EXCEPT !.incoming_pub = RemoveAt(q, i)], ret |-> Some(q[i])]
        ELSE [state |-> st, ret |-> None]

remove_publish(st, pkid) ==
    LET q == st.incoming_pub
        i == position({j \in 1 .. Len(q) : q[j].pid = Some(pkid)})
    IN  IF i # 0
        THEN [state |-> [st EXCEPT !.incoming_pub = RemoveAt(q, i)], ret |-> Some(q[i])]
        ELSE [state |-> st, ret |-> None]

store_record(st, publish) ==
    [st EXCEPT !.incoming_rec = Append(@, publish)]

\* the position is looked up in incoming_pub and the element at that
\* position is removed from incoming_rec; VecDeque::remove returns None for
\* a position past the end
remove_record(st, pkid) ==
    LET q == st.incoming_pub
        r == st.incoming_rec
        i == position({j \in 1 .. Len(q) : q[j].pid = Some(pkid)})
    IN  IF i # 0 /\ i <= Len(r)
        THEN [state |-> [st EXCEPT !.incoming_rec = RemoveAt(r, i)], ret |-> Some(r[i])]
        ELSE [state |-> st, ret |-> None]

store_rel(st, pkid) ==
    [st EXCEPT !.incoming_rel = Append(@, pkid)]

remove_rel(st, pkid) ==
    LET q == st.incoming_rel
        i == position({j \in 1 .. Len(q) : q[j] = pkid})
    IN  IF i # 0 THEN [st EXCEPT !.incoming_rel = RemoveAt(q, i)] ELSE st

store_comp(st, pkid) ==
    [st EXCEPT !.incoming_comp = Append(@, pkid)]

remove_comp(st, pkid) ==
    LET q == st.incoming_comp
        i == position({j \in 1 .. Len(q) : q[j] = pkid})
    IN  IF i # 0 THEN [st EXCEPT !.incoming_comp = RemoveAt(q, i)] ELSE st

(***************************************************************************)
(* Client (client.rs, modelled from spec section 4.1).                     *)
(***************************************************************************)
\* Client::publish_packet: an outbound PUBLISH with a freshly allocated
\* packet id when qos is not AtMostOnce; np is the allocator before the call
publish_packet(np, topic, qos, payload) ==
    IF qos = AtMostOnce
    THEN [publish |-> Publish(topic, qos, payload, None), next_pid |-> np]
    ELSE [publish |-> Publish(topic, qos, payload, Some(np + 1)), next_pid |-> np + 1]

\* Client::suback_packet
suback_packet(pkid, return_codes) == Suback(pkid, return_codes)

\* Client::send: the packet is enqueued at the tail of the client's sink
send(sent, client, packet) == Append(sent, Sent(client, packet))

(***************************************************************************)
(* Fan-out.                                                                *)
(***************************************************************************)
\* the (client, qos) pairs the loops of lines 206-225 visit, in their order:
\* for every qos in [AtMostOnce, AtLeastOnce, ExactlyOnce], the clients of
\* get_subscribed_clients(SubscribeTopic { topic, qos }) in list order
\* mutant: the outer loop leaves out the ExactlyOnce key
fanout_targets_without_qos2(subs, topic) ==
    LET of(q) == LET list == get_subscribed_clients(subs, SubscribeTopic(topic, q))
                 IN  [i \in 1 .. Len(list) |-> [client |-> list[i], qos |-> q]]
    IN  of(AtMostOnce) \o of(AtLeastOnce)

fanout_targets(subs, topic) ==
    LET of(q) == LET list == get_subscribed_clients(subs, SubscribeTopic(topic, q))
                 IN  [i \in 1 .. Len(list) |-> [client |-> list[i], qos |-> q]]
    IN  of(AtMostOnce) \o of(AtLeastOnce) \o of(ExactlyOnce)

\* mutant: the loop stores every publish with a packet id by store_publish
RECURSIVE fanout_stores_in_pub(_, _, _, _, _, _)
fanout_stores_in_pub(targets, topic, payload, cs, np, sent) ==
    IF targets = << >>
    THEN [cstate |-> cs, next_pid |-> np, sent |-> sent]
    ELSE LET client == Head(targets).client
             qos == Head(targets).qos
             built == publish_packet(np[client], topic, qos, payload)
             stored == IF qos = AtMostOnce THEN cs[client]
                       ELSE store_publish(cs[client], built.publish)
         IN  fanout_stores_in_pub(Tail(targets), topic, payload,
                                  [cs EXCEPT ![client] = stored],
                                  [np EXCEPT ![client] = built.next_pid],
                                  send(sent, client, PublishPacket(built.publish)))

\* the body of the inner loop, run for each target in turn: build the
\* packet, store it in the target's queue of its qos, send it
RECURSIVE fanout(_, _, _, _, _, _)
fanout(targets, topic, payload, cs, np, sent) ==
    IF targets = << >>
    THEN [cstate |-> cs, next_pid |-> np, sent |-> sent]
    ELSE LET client == Head(targets).client
             qos == Head(targets).qos
             built == publish_packet(np[client], topic, qos, payload)
             publish == built.publish
             packet == PublishPacket(publish)
             stored == CASE qos = AtLeastOnce -> store_publish(cs[client], publish)
                         [] qos = ExactlyOnce -> store_record(cs[client], publish)
                         [] OTHER -> cs[client]
         IN  fanout(Tail(targets), topic, payload,
                    [cs EXCEPT ![client] = stored],
                    [np EXCEPT ![client] = built.next_pid],
                    send(sent, client, packet))

\* Broker::forward_to_subscribers
forward_to_subscribers(subs, publish, cs, np, sent) ==
    fanout(fanout_targets(subs, publish.topic_name), publish.topic_name,
           publish.payload, cs, np, sent)

(***************************************************************************)
(* Inputs.                                                                 *)
(***************************************************************************)
\* the topic lists of the SUBSCRIBE packets: every single key, and every
\* pair of keys of topic "t" (the same key twice included)
SubscribeLists ==
    {<< k >> : k \in Keys}
    \cup {<< k1, k2 >> : k1 \in {k \in Keys : k.topic_path = "t"},
                         k2 \in {k \in Keys : k.topic_path = "t"}}

\* the inbound PUBLISH packets: none carries a packet id at QoS 0; at QoS 1
\* and 2 the decoder may hand over a packet without one
InboundPublishes ==
    {Publish(t, AtMostOnce, pl, None) : t \in Topics, pl \in Payloads}
    \cup {Publish(t, q, pl, p) : t \in Topics, q \in {AtLeastOnce, ExactlyOnce},
                                 pl \in Payloads, p \in {None} \cup {Some(n) : n \in Pids}}

\* the connection layer hands the broker packets of registered clients only
Registered(c) == clients[id_of(c)] = Some(c)

(***************************************************************************)
(* Initial state: Broker::new(), no Client created yet.                    *)
(***************************************************************************)
Init ==
    /\ clients = [i \in ClientIds |-> None]
    /\ subscriptions = [k \in Keys |-> << >>]
    /\ state = NewState
    /\ cstate = [c \in Clients |-> NewState]
    /\ next_pid = [c \in Clients |-> 0]
    /\ created = {}
    /\ nops = 0
    /\ unacked = [c \in Clients |-> {}]
    /\ unreleased = [c \in Clients |-> << >>]
    /\ last = Op("new", "", "", NoKey, 0, << >>, None, None, << >>)

(***************************************************************************)
(* History bookkeeping.                                                    *)
(***************************************************************************)
\* the packet ids of the QoS-1 PUBLISHes among the packets sent to c
Qos1Sent(sent, c) ==
    {sent[i].packet.publish[1].pid[1] :
        i \in {j \in 1 .. Len(sent) : /\ sent[j].to = c
                                      /\ sent[j].packet.type = "Publish"
                                      /\ sent[j].packet.publish[1].qos = AtLeastOnce}}

\* the unreleased QoS-2 PUBLISHes of a client that carry packet id pkid
WithPid(pubs, pkid) == SelectSeq(pubs, LAMBDA x : x.pid = Some(pkid))
WithoutPid(pubs, pkid) == SelectSeq(pubs, LAMBDA x : x.pid # Some(pkid))

(***************************************************************************)
(* Operations.                                                             *)
(***************************************************************************)
\* CONNECT accepted: the connection layer creates Client value c and calls
\* add_client(c).  c3 is the connection that reuses the id of c1.
AddClient(c) ==
    /\ c \notin created
    /\ c = "c3" => "c1" \in created
    /\ clients' = add_client(clients, c)
    /\ created' = created \cup {c}
    /\ last' = Op("add_client", c, id_of(c), NoKey, 0, << >>, None, None, << >>)
    /\ UNCHANGED << subscriptions, state, cstate, next_pid, unacked, unreleased >>

\* DISCONNECT or connection loss: remove_client(id)
RemoveClient(id) ==
    /\ clients' = remove_client_table(clients, id)
    /\ subscriptions' = remove_client_subscriptions(subscriptions, id)
    /\ last' = Op("remove_client", "", id, NoKey, 0, << >>, None, None, << >>)
    /\ UNCHANGED << state, cstate, next_pid, created, unacked, unreleased >>

\* remove_subscription_client(topic, id)
RemoveSubscription(topic, id) ==
    /\ subscriptions' = remove_subscription_client(subscriptions, topic, id)
    /\ last' = Op("remove_subscription_client", "", id, topic, 0, << >>, None,
                  LET list == subscriptions[topic]
                      found == {i \in 1 .. Len(list) : id_of(list[i]) = id}
                  IN  IF found = {} THEN None ELSE Some(list[position(found)]),
                  << >>)
    /\ UNCHANGED << clients, state, cstate, next_pid, created, unacked, unreleased >>

\* mutant: the loop stops after the first topic
subscribe_first_only(topics, client, subs, return_codes) ==
    IF topics = << >>
    THEN [subscriptions |-> subs, return_codes |-> return_codes]
    ELSE [subscriptions |-> add_subscription_client(subs, Head(topics), client),
          return_codes |-> Append(return_codes, Success(Head(topics).qos))]

\* the loop of Broker::handle_subscribe over subscribe.topics
RECURSIVE subscribe_loop(_, _, _, _)
subscribe_loop(topics, client, subs, return_codes) ==
    IF topics = << >>
    THEN [subscriptions |-> subs, return_codes |-> return_codes]
    ELSE subscribe_loop(Tail(topics), client,
                        add_subscription_client(subs, Head(topics), client),
                        Append(return_codes, Success(Head(topics).qos)))

\* Broker::handle_subscribe: what it leaves in the index and what it sends
handle_subscribe(subs, pkid, topics, client) ==
    LET done == subscribe_loop(topics, client, subs, << >>)
        suback == suback_packet(pkid, done.return_codes)
    IN  [subscriptions |-> done.subscriptions,
         sent |-> send(<< >>, client, suback)]

HandleSubscribe(c, pkid, topics) ==
    /\ Registered(c)
    /\ LET r == handle_subscribe(subscriptions, pkid, topics, c)
       IN  /\ \A k \in Keys : Len(r.subscriptions[k]) <= MaxSubs
           /\ subscriptions' = r.subscriptions
           /\ last' = Op("handle_subscribe", c, id_of(c), NoKey, pkid, topics, None, None, r.sent)
    /\ UNCHANGED << clients, state, cstate, next_pid, created, unacked, unreleased >>

\* mutant: the QoS-1 branch forwards first and acknowledges last
handle_publish_acks_last(st, subs, cs, np, publish, client) ==
    LET pkid == publish.pid
        qos == publish.qos
        ignored == [state |-> st, cstate |-> cs, next_pid |-> np, sent |-> << >>]
        f == forward_to_subscribers(subs, publish, cs, np, << >>)
    IN  CASE qos = AtMostOnce ->
                [state |-> st, cstate |-> f.cstate, next_pid |-> f.next_pid, sent |-> f.sent]
          [] qos = AtLeastOnce ->
                IF pkid # None
                THEN [state |-> st, cstate |-> f.cstate, next_pid |-> f.next_pid,
                      sent |-> send(f.sent, client, Puback(pkid[1]))]
                ELSE ignored
          [] qos = ExactlyOnce ->
                IF pkid # None
                THEN [state |-> store_record(st, publish), cstate |-> cs,
                      next_pid |-> np, sent |-> send(<< >>, client, Pubrec(pkid[1]))]
                ELSE ignored

\* mutant: a QoS-1 publish without packet id is forwarded unacknowledged
handle_publish_forwards_without_pid(st, subs, cs, np, publish, client) ==
    LET pkid == publish.pid
        qos == publish.qos
        ignored == [state |-> st, cstate |-> cs, next_pid |-> np, sent |-> << >>]
        acked == IF pkid # None THEN send(<< >>, client, Puback(pkid[1])) ELSE << >>
        f == forward_to_subscribers(subs, publish, cs, np,
                                    IF qos = AtLeastOnce THEN acked ELSE << >>)
    IN  CASE qos = AtMostOnce \/ qos = AtLeastOnce ->
                [state |-> st, cstate |-> f.cstate, next_pid |-> f.next_pid, sent |-> f.sent]
          [] qos = ExactlyOnce ->
                IF pkid # None
                THEN [state |-> store_record(st, publish), cstate |-> cs,
                      next_pid |-> np, sent |-> send(<< >>, client, Pubrec(pkid[1]))]
                ELSE ignored

\* Broker::handle_publish: the broker state, client states, allocators and
\* sent packets it leaves
handle_publish(st, subs, cs, np, publish, client) ==
    LET pkid == publish.pid
        qos == publish.qos
        ignored == [state |-> st, cstate |-> cs, next_pid |-> np, sent |-> << >>]
    IN  CASE qos = AtMostOnce ->
                LET f == forward_to_subscribers(subs, publish, cs, np, << >>)
                IN  [state |-> st, cstate |-> f.cstate, next_pid |-> f.next_pid,
                     sent |-> f.sent]
          [] qos = AtLeastOnce ->
                IF pkid # None
                THEN LET acked == send(<< >>, client, Puback(pkid[1]))
                         f == forward_to_subscribers(subs, publish, cs, np, acked)
                     IN  [state |-> st, cstate |-> f.cstate, next_pid |-> f.next_pid,
                          sent |-> f.sent]
                ELSE ignored
          [] qos = ExactlyOnce ->
                IF pkid # None
                THEN [state |-> store_record(st, publish), cstate |-> cs,
                      next_pid |-> np, sent |-> send(<< >>, client, Pubrec(pkid[1]))]
                ELSE ignored

HandlePublish(c, publish) ==
    /\ Registered(c)
    /\ LET r == handle_publish(state, subscriptions, cstate, next_pid, publish, c)
           recorded == publish.qos = ExactlyOnce /\ publish.pid # None
       IN  /\ state' = r.state
           /\ cstate' = r.cstate
           /\ next_pid' = r.next_pid
           /\ unacked' = [x \in Clients |-> unacked[x] \cup Qos1Sent(r.sent, x)]
           /\ unreleased' = IF recorded
                            THEN [unreleased EXCEPT ![c] = Append(@, publish)]
                            ELSE unreleased
           /\ last' = Op("handle_publish", c, id_of(c), NoKey, 0, << >>, Some(publish), None, r.sent)
    /\ UNCHANGED << clients, subscriptions, created >>

\* Broker::handle_puback
handle_puback(cs, pkid, client) ==
    [cs EXCEPT ![client] = remove_publish(cs[client], pkid).state]

HandlePuback(c, pkid) ==
    /\ Registered(c)
    /\ cstate' = handle_puback(cstate, pkid, c)
    /\ unacked' = [unacked EXCEPT ![c] = @ \ {pkid}]
    /\ last' = Op("handle_puback", c, id_of(c), NoKey, pkid, << >>, None,
                  remove_publish(cstate[c], pkid).ret, << >>)
    /\ UNCHANGED << clients, subscriptions, state, next_pid, created, unreleased >>

\* Broker::handle_pubrec
handle_pubrec(cs, pkid, client) ==
    LET removed == remove_record(cs[client], pkid)
    IN  IF removed.ret # None
        THEN [cstate |-> [cs EXCEPT ![client] =
                              store_rel(removed.state, removed.ret[1].pid[1])],
              sent |-> send(<< >>, client, Pubrel(pkid))]
        ELSE [cstate |-> cs, sent |-> << >>]

HandlePubrec(c, pkid) ==
    /\ Registered(c)
    /\ LET r == handle_pubrec(cstate, pkid, c)
       IN  /\ cstate' = r.cstate
           /\ last' = Op("handle_pubrec", c, id_of(c), NoKey, pkid, << >>, None,
                         remove_record(cstate[c], pkid).ret, r.sent)
    /\ UNCHANGED << clients, subscriptions, state, next_pid, created, unacked, unreleased >>

\* Broker::handle_pubcomp
handle_pubcomp(cs, pkid, client) ==
    [cs EXCEPT ![client] = remove_rel(cs[client], pkid)]

HandlePubcomp(c, pkid) ==
    /\ Registered(c)
    /\ cstate' = handle_pubcomp(cstate, pkid, c)
    /\ last' = Op("handle_pubcomp", c, id_of(c), NoKey, pkid, << >>, None, None, << >>)
    /\ UNCHANGED << clients, subscriptions, state, next_pid, created, unacked, unreleased >>

\* Broker::handle_pubrel: PUBCOMP first, then the record is looked up in the
\* client's state and, when found, fanned out by the loops of lines 294-313,
\* which repeat those of forward_to_subscribers
handle_pubrel(subs, cs, np, pkid, client) ==
    LET completed == send(<< >>, client, Pubcomp(pkid))
        removed == remove_record(cs[client], pkid)
    IN  IF removed.ret # None
        THEN LET record == removed.ret[1]
             IN  fanout(fanout_targets(subs, record.topic_name), record.topic_name,
                        record.payload, [cs EXCEPT ![client] = removed.state], np,
                        completed)
        ELSE [cstate |-> cs, next_pid |-> np, sent |-> completed]

HandlePubrel(c, pkid) ==
    /\ Registered(c)
    /\ LET r == handle_pubrel(subscriptions, cstate, next_pid, pkid, c)
           released == WithPid(unreleased[c], pkid)
       IN  /\ cstate' = r.cstate
           /\ next_pid' = r.next_pid
           /\ unacked' = [x \in Clients |-> unacked[x] \cup Qos1Sent(r.sent, x)]
           /\ unreleased' = [unreleased EXCEPT ![c] = WithoutPid(@, pkid)]
           /\ last' = Op("handle_pubrel", c, id_of(c), NoKey, pkid, << >>,
                         IF released = << >> THEN None ELSE Some(released[1]),
                         remove_record(cstate[c], pkid).ret, r.sent)
    /\ UNCHANGED << clients, subscriptions, state, created >>

\* Broker::handle_pingreq
handle_pingreq(client) == send(<< >>, client, Pingresp)

HandlePingreq(c) ==
    /\ Registered(c)
    /\ last' = Op("handle_pingreq", c, id_of(c), NoKey, 0, << >>, None, None, handle_pingreq(c))
    /\ UNCHANGED << clients, subscriptions, state, cstate, next_pid, created,
                    unacked, unreleased >>

\* one more operation, in behaviours of at most MaxOps operations
Counted == nops < MaxOps /\ nops' = nops + 1

Next ==
    \/ \E c \in ProtocolClients : Counted /\ AddClient(c)
    \/ \E i \in ProtocolIds : Counted /\ RemoveClient(i)
    \/ \E k \in Keys, i \in ProtocolIds : Counted /\ RemoveSubscription(k, i)
    \/ \E c \in Clients, p \in Pids, topics \in SubscribeLists :
            Counted /\ HandleSubscribe(c, p, topics)
    \/ \E c \in Clients, publish \in InboundPublishes : Counted /\ HandlePublish(c, publish)
    \/ \E c \in Clients, p \in Pids : Counted /\ HandlePuback(c, p)
    \/ \E c \in Clients, p \in Pids : Counted /\ HandlePubrec(c, p)
    \/ \E c \in Clients, p \in Pids : Counted /\ HandlePubcomp(c, p)
    \/ \E c \in Clients, p \in Pids : Counted /\ HandlePubrel(c, p)
    \/ \E c \in Clients : Counted /\ HandlePingreq(c)

Spec == Init /\ [][Next]_vars

(***************************************************************************)
(* SpecIndex: the session table and the subscription index under every     *)
(* interleaving of add_client, remove_client, SUBSCRIBE and                *)
(* remove_subscription_client, with at most MaxSubs entries in the index.  *)
(* Every SUBSCRIBE carries packet id 1 and one topic of IndexKeys: the id  *)
(* goes into the SUBACK and not into the index, and a list of topics is    *)
(* indexed topic by topic.                                                 *)
(***************************************************************************)
\* the number of entries of the index
entries(subs) ==
    LET of(t) == Len(subs[SubscribeTopic(t, AtMostOnce)])
                     + Len(subs[SubscribeTopic(t, AtLeastOnce)])
                     + Len(subs[SubscribeTopic(t, ExactlyOnce)])
    IN  of("t") + of("u")

WithinSubs == entries(subscriptions') <= MaxSubs

\* the keys the runs of the index subscribe to and unsubscribe from
IndexKeys ==
    {SubscribeTopic("t", AtMostOnce), SubscribeTopic("t", AtLeastOnce),
     SubscribeTopic("u", AtMostOnce)}

NextIndex ==
    \/ \E c \in Clients : AddClient(c) /\ UNCHANGED nops
    \/ \E i \in ClientIds : RemoveClient(i) /\ UNCHANGED nops
    \/ \E k \in IndexKeys, i \in ClientIds : RemoveSubscription(k, i) /\ UNCHANGED nops
    \/ \E c \in Clients, k \in IndexKeys :
            HandleSubscribe(c, 1, << k >>) /\ WithinSubs /\ UNCHANGED nops

SpecIndex == Init /\ [][NextIndex]_vars

(***************************************************************************)
(* SpecState: the queue methods of the Broker applied to its own state,    *)
(* with at most MaxQueue elements in the four queues together.             *)
(***************************************************************************)
\* the publishes given to store_publish and store_record: QoS-1 and QoS-2
\* publishes with a packet id
StoredPublishes(q) == {Publish("t", q, pl, Some(n)) : pl \in Payloads, n \in Pids}

WithinQueue ==
    Len(state'.incoming_pub) + Len(state'.incoming_rec)
        + Len(state'.incoming_rel) + Len(state'.incoming_comp) <= MaxQueue

\* everything but the broker's state and the record of the operation
Rest == << clients, subscriptions, cstate, next_pid, created, unacked, unreleased, nops >>

StorePublish(publish) ==
    /\ state' = store_publish(state, publish)
    /\ WithinQueue
    /\ last' = Op("store_publish", "", "", NoKey, 0, << >>, Some(publish), None, << >>)
    /\ UNCHANGED Rest

\* for the removals, last.ret is what the method returned
RemovePublish(pkid) ==
    /\ state' = remove_publish(state, pkid).state
    /\ last' = Op("remove_publish", "", "", NoKey, pkid, << >>, None,
                  remove_publish(state, pkid).ret, << >>)
    /\ UNCHANGED Rest

StoreRecord(publish) ==
    /\ state' = store_record(state, publish)
    /\ WithinQueue
    /\ last' = Op("store_record", "", "", NoKey, 0, << >>, Some(publish), None, << >>)
    /\ UNCHANGED Rest

RemoveRecord(pkid) ==
    /\ state' = remove_record(state, pkid).state
    /\ last' = Op("remove_record", "", "", NoKey, pkid, << >>, None,
                  remove_record(state, pkid).ret, << >>)
    /\ UNCHANGED Rest

StoreRel(pkid) ==
    /\ state' = store_rel(state, pkid)
    /\ WithinQueue
    /\ last' = Op("store_rel", "", "", NoKey, pkid, << >>, None, None, << >>)
    /\ UNCHANGED Rest

RemoveRel(pkid) ==
    /\ state' = remove_rel(state, pkid)
    /\ last' = Op("remove_rel", "", "", NoKey, pkid, << >>, None, None, << >>)
    /\ UNCHANGED Rest

StoreComp(pkid) ==
    /\ state' = store_comp(state, pkid)
    /\ WithinQueue
    /\ last' = Op("store_comp", "", "", NoKey, pkid, << >>, None, None, << >>)
    /\ UNCHANGED Rest

RemoveComp(pkid) ==
    /\ state' = remove_comp(state, pkid)
    /\ last' = Op("remove_comp", "", "", NoKey, pkid, << >>, None, None, << >>)
    /\ UNCHANGED Rest

NextState ==
    \/ \E publish \in StoredPublishes(AtLeastOnce) : StorePublish(publish)
    \/ \E p \in Pids : RemovePublish(p)
    \/ \E publish \in StoredPublishes(ExactlyOnce) : StoreRecord(publish)
    \/ \E p \in Pids : RemoveRecord(p)
    \/ \E p \in Pids : StoreRel(p)
    \/ \E p \in Pids : RemoveRel(p)
    \/ \E p \in Pids : StoreComp(p)
    \/ \E p \in Pids : RemoveComp(p)

SpecState == Init /\ [][NextState]_vars

(***************************************************************************)
(* Properties.                                                             *)
(***************************************************************************)
\* the positions of list whose session has client id id
EntriesOf(list, id) == {i \in 1 .. Len(list) : id_of(list[i]) = id}

\* the number of PUBLISH packets on topic t at QoS q with payload pl among
\* the packets sent to Client value c
Delivered(sent, c, t, q, pl) ==
    Cardinality({j \in 1 .. Len(sent) :
                    /\ sent[j].to = c
                    /\ sent[j].packet.type = "Publish"
                    /\ sent[j].packet.publish[1].topic_name = t
                    /\ sent[j].packet.publish[1].qos = q
                    /\ sent[j].packet.publish[1].payload = pl})

\* C1: when PUBREL(p) from client C releases a QoS-2 PUBLISH with packet id
\* p that the broker handled for C before, every session subscribed under a
\* key (t, q) of the publish's topic t is sent exactly one PUBLISH of that
\* message at QoS q.
C1_ReleasedPublishReachesSubscribers ==
    (last.op = "handle_pubrel" /\ last.publish # None) =>
        LET inbound == last.publish[1]
        IN  \A q \in QoS :
                LET list == subscriptions[SubscribeTopic(inbound.topic_name, q)]
                IN  \A i \in 1 .. Len(list) :
                        Delivered(last.sent, list[i], inbound.topic_name, q,
                                  inbound.payload) = 1

\* C2: once remove_client(id) has returned, id is absent from the session
\* table and no list of the subscription index has an entry with that id.
C2_RemovedClientIsGone ==
    last.op = "remove_client" =>
        /\ clients[last.id] = None
        /\ \A k \in Keys : EntriesOf(subscriptions[k], last.id) = {}

\* C4: within any list of the subscription index no two entries share a
\* client id.
C4_OneEntryPerClientId ==
    \A k \in Keys : \A i, j \in 1 .. Len(subscriptions[k]) :
        i # j => id_of(subscriptions[k][i]) # id_of(subscriptions[k][j])

\* C5: every session in a list of the subscription index has its id present
\* in the session table.
C5_SubscribersAreRegistered ==
    \A k \in Keys : \A i \in 1 .. Len(subscriptions[k]) :
        clients[id_of(subscriptions[k][i])] # None

\* the elements of a queue
Elements(q) == {q[i] : i \in 1 .. Len(q)}

\* C3: a QoS-1 PUBLISH forwarded to a session is held in that session's
\* incoming_pub, once, until the session's PUBACK with its packet id; so a
\* session that has acknowledged every QoS-1 PUBLISH it was sent has an
\* empty incoming_pub.
C3_ForwardedHeldUntilAcked ==
    \A c \in Clients :
        LET q == cstate[c].incoming_pub
        IN  /\ {q[i].pid : i \in 1 .. Len(q)} = {Some(n) : n \in unacked[c]}
            /\ Len(q) = Cardinality(unacked[c])
            /\ \A i \in 1 .. Len(q) : q[i].qos = AtLeastOnce
            /\ unacked[c] = {} => q = << >>

\* a PUBACK has just emptied the incoming_pub of a session that held a
\* forwarded publish
C3_Witness ==
    /\ last.op = "handle_puback"
    /\ last.ret # None
    /\ unacked[last.client] = {}
    /\ cstate[last.client].incoming_pub = << >>

\* C6: after SUBSCRIBE(pid, [(t1,q1), ..., (tn,qn)]) from client c, the list
\* of every (ti,qi) has an entry with c's id, and exactly one packet was
\* sent: SUBACK(pid) to c with the return codes Success(q1), ..., Success(qn)
\* in this order.
C6_SubscribeIndexesAndAcks ==
    last.op = "handle_subscribe" =>
        /\ \A i \in 1 .. Len(last.topics) :
               EntriesOf(subscriptions[last.topics[i]], last.id) # {}
        /\ last.sent = << Sent(last.client,
                               Suback(last.pid, [i \in 1 .. Len(last.topics) |->
                                                    Success(last.topics[i].qos)])) >>

\* a SUBSCRIBE with two topics of different QoS was handled
C6_Witness ==
    /\ last.op = "handle_subscribe"
    /\ Len(last.topics) = 2
    /\ last.topics[1].qos # last.topics[2].qos
    /\ last.pid = 2

\* C8: every PUBLISH sent goes to a session subscribed under the key of the
\* packet's topic and QoS, carries a packet id iff its QoS is not
\* AtMostOnce, and is stored in the target's incoming_pub iff its QoS is
\* AtLeastOnce and in its incoming_rec iff its QoS is ExactlyOnce; every
\* incoming_pub holds only QoS-1 publishes, every incoming_rec only QoS-2
\* publishes, and every stored publish has a packet id.
C8_FanOutFollowsSubscriptionQos ==
    /\ \A j \in 1 .. Len(last.sent) :
           last.sent[j].packet.type = "Publish" =>
               LET p == last.sent[j].packet.publish[1]
                   c == last.sent[j].to
               IN  /\ c \in Elements(subscriptions[SubscribeTopic(p.topic_name, p.qos)])
                   /\ p.pid # None <=> p.qos # AtMostOnce
                   /\ p \in Elements(cstate[c].incoming_pub) <=> p.qos = AtLeastOnce
                   /\ p \in Elements(cstate[c].incoming_rec) <=> p.qos = ExactlyOnce
    /\ \A st \in {state} \cup {cstate[c] : c \in Clients} :
           /\ \A x \in Elements(st.incoming_pub) : x.qos = AtLeastOnce /\ x.pid # None
           /\ \A x \in Elements(st.incoming_rec) : x.qos = ExactlyOnce /\ x.pid # None

\* a QoS-0 PUBLISH was fanned out as a QoS-1 and as a QoS-2 PUBLISH
C8_Witness ==
    /\ last.op = "handle_publish"
    /\ last.publish[1].qos = AtMostOnce
    /\ \E i, j \in 1 .. Len(last.sent) :
           /\ last.sent[i].packet.type = "Publish"
           /\ last.sent[j].packet.type = "Publish"
           /\ last.sent[i].packet.publish[1].qos = AtLeastOnce
           /\ last.sent[j].packet.publish[1].qos = ExactlyOnce

\* the position of the first entry of id in list, 0 when it has none
FirstAt(list, id) == position(EntriesOf(list, id))
\* the entries of list that are not of id, in their order
Others(list, id) == SelectSeq(list, LAMBDA c : id_of(c) # id)

\* C7: remove_publish, remove_record, remove_rel and remove_comp with a
\* packet id that matches no entry of the queue they address leave the
\* four queues as they are, and remove_publish and remove_record return
\* nothing.
C7_UnmatchedRemovalChangesNothing ==
    [][ /\ (/\ last'.op = "remove_publish"
            /\ \A x \in Elements(state.incoming_pub) : x.pid # Some(last'.pid))
           => state' = state /\ last'.ret = None
        /\ (/\ last'.op = "remove_record"
            /\ \A x \in Elements(state.incoming_rec) : x.pid # Some(last'.pid))
           => state' = state /\ last'.ret = None
        /\ (/\ last'.op = "remove_rel"
            /\ last'.pid \notin Elements(state.incoming_rel))
           => state' = state
        /\ (/\ last'.op = "remove_comp"
            /\ last'.pid \notin Elements(state.incoming_comp))
           => state' = state ]_vars

\* C9: under every key the client ids stay in the order in which they were
\* first added: no step changes the relative order of two ids that stay, a
\* newly added id goes behind the ids already there, and a removal leaves
\* the remaining entries in their relative order.
C9_SubscriberOrderPreserved ==
    [][ \A k \in Keys :
            LET old == subscriptions[k]
                new == subscriptions'[k]
            IN  /\ \A a, b \in ClientIds :
                       (/\ FirstAt(old, a) # 0 /\ FirstAt(new, a) # 0
                        /\ FirstAt(new, b) # 0)
                       => IF FirstAt(old, b) # 0
                          THEN FirstAt(old, a) < FirstAt(old, b)
                                   <=> FirstAt(new, a) < FirstAt(new, b)
                          ELSE FirstAt(new, a) < FirstAt(new, b)
                /\ last'.op \in {"remove_subscription_client", "remove_client"}
                       => /\ Others(new, last'.id) = Others(old, last'.id)
                          /\ \/ new = old
                             \/ \E i \in 1 .. Len(old) : new = RemoveAt(old, i) ]_vars

\* the second of three subscribers of a key was removed from it, the first
\* and the third stay in this order
C9_Witness ==
    /\ last.op = "remove_subscription_client"
    /\ last.ret = Some("c2")
    /\ subscriptions[last.key] = << "c1", "c4" >>

\* C10: remove_subscription_client(k, id) leaves no entry of id in the list
\* of k, and changes nothing else: the lists of the other keys, the entries
\* of the other ids in the list of k, and the table of clients stay as they
\* are; when the list of k has no entry of id nothing changes.
C10_RemoveSubscriptionRemovesOnlyThatEntry ==
    [][ last'.op = "remove_subscription_client" =>
            LET k == last'.key
                id == last'.id
            IN  /\ EntriesOf(subscriptions'[k], id) = {}
                /\ \A other \in Keys \ {k} : subscriptions'[other] = subscriptions[other]
                /\ Others(subscriptions'[k], id) = Others(subscriptions[k], id)
                /\ clients' = clients
                /\ EntriesOf(subscriptions[k], id) = {} => subscriptions' = subscriptions ]_vars

\* C11: add_client(c) puts c in the table under c's id, in place of a
\* session the id had, remove_client(id) leaves the id without session, and
\* both leave every other id as it was; no other operation changes the
\* table.  So the ids in the table are those whose last call was add_client.
C11_TableFollowsAddAndRemove ==
    [][ /\ last'.op = "add_client"
           => /\ clients'[last'.id] = Some(last'.client)
              /\ \A i \in ClientIds \ {last'.id} : clients'[i] = clients[i]
        /\ last'.op = "remove_client"
           => /\ clients'[last'.id] = None
              /\ \A i \in ClientIds \ {last'.id} : clients'[i] = clients[i]
        /\ last'.op \notin {"add_client", "remove_client"} => clients' = clients ]_vars

\* the second connection with client id A has taken the place of the first
\* in the table, next to the session of another id
C11_Witness ==
    /\ last.op = "add_client"
    /\ last.client = "c3"
    /\ clients["A"] = Some("c3")
    /\ clients["B"] = Some("c2")

\* C12: handling a QoS-2 PUBLISH with packet id p from client C appends the
\* publish to the incoming_rec of C and sends PUBREC(p) to C and nothing
\* else; a PUBLISH goes out to subscribers only while a PUBREL or a PUBLISH
\* of QoS 0 or 1 is handled, so a QoS-2 message goes out at its PUBREL.
C12_Qos2PublishDeferred ==
    [][ /\ (/\ last'.op = "handle_publish"
            /\ last'.publish[1].qos = ExactlyOnce
            /\ last'.publish[1].pid # None)
           => /\ cstate'[last'.client].incoming_rec =
                     Append(cstate[last'.client].incoming_rec, last'.publish[1])
              /\ last'.sent = << Sent(last'.client, Pubrec(last'.publish[1].pid[1])) >>
        /\ (\E j \in 1 .. Len(last'.sent) : last'.sent[j].packet.type = "Publish")
           => \/ last'.op = "handle_pubrel"
              \/ /\ last'.op = "handle_publish"
                 /\ last'.publish[1].qos # ExactlyOnce ]_vars

\* C13: when subscriber A, holding in its incoming_rec the record of a
\* forwarded QoS-2 PUBLISH with packet id m, sends PUBREC(m), the record
\* leaves incoming_rec, m is appended to A's incoming_rel and PUBREL(m) is
\* sent to A; after A's PUBCOMP(m) incoming_rel holds no m.
C13_OutboundQos2Handshake ==
    [][ /\ (/\ last'.op = "handle_pubrec"
            /\ \E x \in Elements(cstate[last'.client].incoming_rec) :
                   x.pid = Some(last'.pid))
           => LET before == cstate[last'.client]
                  after == cstate'[last'.client]
                  i == position({j \in 1 .. Len(before.incoming_rec) :
                                    before.incoming_rec[j].pid = Some(last'.pid)})
              IN  /\ after.incoming_rec = RemoveAt(before.incoming_rec, i)
                  /\ after.incoming_rel = Append(before.incoming_rel, last'.pid)
                  /\ last'.sent = << Sent(last'.client, Pubrel(last'.pid)) >>
        /\ last'.op = "handle_pubcomp"
           => last'.pid \notin Elements(cstate'[last'.client].incoming_rel) ]_vars

\* C14: remove_record(pid) takes out of incoming_rec the first element with
\* packet id pid and returns it, whatever incoming_pub holds; the other
\* elements of incoming_rec keep their places, the three other queues stay
\* as they are, and it returns nothing exactly when incoming_rec has no
\* element with that packet id.
C14_RemoveRecordByPid ==
    [][ last'.op = "remove_record" =>
            LET q == state.incoming_rec
                i == position({j \in 1 .. Len(q) : q[j].pid = Some(last'.pid)})
            IN  /\ IF i # 0
                   THEN /\ state'.incoming_rec = RemoveAt(q, i)
                        /\ last'.ret = Some(q[i])
                   ELSE /\ state'.incoming_rec = q
                        /\ last'.ret = None
                /\ state'.incoming_pub = state.incoming_pub
                /\ state'.incoming_rel = state.incoming_rel
                /\ state'.incoming_comp = state.incoming_comp ]_vars

\* C15: handling PUBREL(pid) from client C sends PUBCOMP(pid) to C first and
\* once, every packet after it is a PUBLISH of the fan-out; when C's
\* incoming_rec holds no record with that packet id, PUBCOMP(pid) is the
\* only packet sent and the queues, the table of clients and the
\* subscription index stay as they are.
C15_PubrelCompletesFirst ==
    [][ last'.op = "handle_pubrel" =>
            /\ Len(last'.sent) >= 1
            /\ last'.sent[1] = Sent(last'.client, Pubcomp(last'.pid))
            /\ \A j \in 2 .. Len(last'.sent) : last'.sent[j].packet.type = "Publish"
            /\ (\A x \in Elements(cstate[last'.client].incoming_rec) :
                    x.pid # Some(last'.pid))
               => /\ Len(last'.sent) = 1
                  /\ state' = state
                  /\ cstate' = cstate
                  /\ clients' = clients
                  /\ subscriptions' = subscriptions ]_vars

\* the number of entries of Client value c in list
Count(list, c) == Cardinality({i \in 1 .. Len(list) : list[i] = c})

\* the publishes of the QoS-q PUBLISH packets sent to Client value c, in
\* the order they were sent
PublishesTo(sent, c, q) ==
    LET sel == SelectSeq(sent, LAMBDA s : /\ s.to = c
                                          /\ s.packet.type = "Publish"
                                          /\ s.packet.publish[1].qos = q)
    IN  [i \in 1 .. Len(sel) |-> sel[i].packet.publish[1]]

\* packets is one PUBLISH of (t, pl) per entry of the lists of the three
\* keys of topic t and nothing else, and next differs from cs by these
\* PUBLISHes: the QoS-1 ones appended to the incoming_pub of their target,
\* the QoS-2 ones to its incoming_rec.
FannedOut(packets, t, pl, cs, next) ==
    /\ \A j \in 1 .. Len(packets) :
           /\ packets[j].packet.type = "Publish"
           /\ packets[j].packet.publish[1].topic_name = t
           /\ packets[j].packet.publish[1].payload = pl
    /\ \A c \in Clients :
           /\ \A q \in QoS :
                  Delivered(packets, c, t, q, pl) = Count(subscriptions[SubscribeTopic(t, q)], c)
           /\ next[c].incoming_pub = cs[c].incoming_pub \o PublishesTo(packets, c, AtLeastOnce)
           /\ next[c].incoming_rec = cs[c].incoming_rec \o PublishesTo(packets, c, ExactlyOnce)
           /\ next[c].incoming_rel = cs[c].incoming_rel
           /\ next[c].incoming_comp = cs[c].incoming_comp

\* C16: handling a QoS-1 PUBLISH with packet id pid from client C sends
\* PUBACK(pid) to C as the first packet, then one PUBLISH per entry of the
\* lists of the topic's three keys; the broker's own queues stay as they
\* are and the queues of C, like those of every session, get only what was
\* forwarded to them.
C16_PubackBeforeFanOut ==
    [][ (/\ last'.op = "handle_publish"
         /\ last'.publish[1].qos = AtLeastOnce
         /\ last'.publish[1].pid # None)
        => /\ Len(last'.sent) >= 1
           /\ last'.sent[1] = Sent(last'.client, Puback(last'.publish[1].pid[1]))
           /\ FannedOut(Tail(last'.sent), last'.publish[1].topic_name,
                        last'.publish[1].payload, cstate, cstate')
           /\ state' = state ]_vars

\* a QoS-1 PUBLISH of a client that is itself a subscriber of the topic was
\* acknowledged and forwarded to it
C16_Witness ==
    /\ last.op = "handle_publish"
    /\ last.publish[1].qos = AtLeastOnce
    /\ last.publish[1].pid # None
    /\ \E j \in 2 .. Len(last.sent) : last.sent[j].to = last.client

\* C17: a PUBLISH of QoS 1 or 2 without packet id is dropped: nothing is
\* sent, and the queues, the table of clients and the subscription index
\* stay as they are, the source still in the table.
C17_PublishWithoutPidDropped ==
    [][ (/\ last'.op = "handle_publish"
         /\ last'.publish[1].qos # AtMostOnce
         /\ last'.publish[1].pid = None)
        => /\ last'.sent = << >>
           /\ state' = state
           /\ cstate' = cstate
           /\ clients' = clients
           /\ subscriptions' = subscriptions
           /\ clients'[last'.id] = Some(last'.client) ]_vars

\* a QoS-1 PUBLISH without packet id on a topic that has a subscriber was
\* handled
C17_Witness ==
    /\ last.op = "handle_publish"
    /\ last.publish[1].qos = AtLeastOnce
    /\ last.publish[1].pid = None
    /\ \E q \in QoS : subscriptions[SubscribeTopic(last.publish[1].topic_name, q)] # << >>

\* C18: handling a QoS-0 PUBLISH on topic t sends one PUBLISH per entry of
\* the lists of (t, AtMostOnce), (t, AtLeastOnce) and (t, ExactlyOnce), at
\* the QoS of the key, and nothing else (nothing to the publisher as such,
\* nothing to sessions without entry); the QoS-1 ones are stored in the
\* target's incoming_pub, the QoS-2 ones in its incoming_rec, the QoS-0 ones
\* nowhere.
C18_Qos0FanOut ==
    [][ (/\ last'.op = "handle_publish"
         /\ last'.publish[1].qos = AtMostOnce)
        => /\ FannedOut(last'.sent, last'.publish[1].topic_name,
                        last'.publish[1].payload, cstate, cstate')
           /\ state' = state ]_vars

\* a QoS-0 PUBLISH went to a subscriber at QoS 0 and at QoS 2 while
\* another registered client, not subscribed, got nothing
C18_Witness ==
    /\ last.op = "handle_publish"
    /\ last.publish[1].qos = AtMostOnce
    /\ \E i, j \in 1 .. Len(last.sent) :
           /\ last.sent[i].packet.publish[1].qos = AtMostOnce
           /\ last.sent[j].packet.publish[1].qos = ExactlyOnce
    /\ \E c \in Clients : /\ Registered(c)
                          /\ \A j \in 1 .. Len(last.sent) : last.sent[j].to # c

\* C19: when client C's QoS-2 PUBLISH with packet id p has been handled,
\* once, and C's PUBREL(p) is handled then, the record of that PUBLISH is in
\* no record queue afterwards, neither the broker's own nor C's.
C19_InboundQos2ReturnsToIdle ==
    [][ (/\ last'.op = "handle_pubrel"
         /\ Len(WithPid(unreleased[last'.client], last'.pid)) = 1)
        => LET record == WithPid(unreleased[last'.client], last'.pid)[1]
           IN  /\ record \notin Elements(state'.incoming_rec)
               /\ record \notin Elements(cstate'[last'.client].incoming_rec) ]_vars

\* C20: when client C has sent the same QoS-2 PUBLISH with packet id p more
\* than once and then sends PUBREL(p), the PUBREL sends at most one PUBLISH
\* per entry of each key of the topic and leaves no record with packet id p
\* of C stored, neither in the broker's own incoming_rec nor in C's, so that
\* a further PUBREL(p) finds nothing to send.
C20_ExactlyOnceUnderRetransmission ==
    [][ (/\ last'.op = "handle_pubrel"
         /\ Len(WithPid(unreleased[last'.client], last'.pid)) >= 2)
        => LET copy == WithPid(unreleased[last'.client], last'.pid)[1]
           IN  /\ \A c \in Clients, q \in QoS :
                      Delivered(last'.sent, c, copy.topic_name, q, copy.payload)
                          <= Count(subscriptions[SubscribeTopic(copy.topic_name, q)], c)
               /\ copy \notin Elements(state'.incoming_rec)
               /\ copy \notin Elements(cstate'[last'.client].incoming_rec) ]_vars

====
